---- MODULE Spec2Model ----
(***************************************************************************)
(* i3track: the session engine of src/main.rs (the rx.for_each event loop, *)
(* the idle timer, the interrupt handler) and the start-up code that       *)
(* selects the log file and the first record id.                           *)
(*                                                                         *)
(* The modules i3, i3log and error are not part of the source tree; what   *)
(* main.rs calls from them (Log::new, Log::write, I3Log::new_start,        *)
(* i3log::initial_event_id, i3log::writer) is modelled after spec.md.      *)
(***************************************************************************)
EXTENDS Integers, Sequences, FiniteSets, TLC

VARIABLES
    status,      \* "start" | "running" | "exit0" (exit status 0) | "panic"
    dir,         \* the log directory: a set of files [ext, age, last_id]
    log_path,    \* the extension of the file setup_log selected
    next_id,     \* main's `next_id`
    prev_i3log,  \* main's `prev_i3log`: None or an open session
    rx,          \* the mpsc channel: events sent and not yet consumed
    timers,      \* the spawned timeout futures that have not sent their Tick
    now,         \* wall clock, in seconds (one of Instants)
    written,     \* the records appended by the writer in this run
    flushes,     \* flush calls main makes on the writer (it makes none)
    sent,        \* number of events the window listener has sent
    focus,       \* the window that has focus, as the listener last reported
    listener,    \* the window listener: "off" | "on" | "failed"
    sigs,        \* number of interrupt signals delivered
    h            \* history: what the loop has processed so far

vars == <<status, dir, log_path, next_id, prev_i3log, rx, timers, now,
          written, flushes, sent, focus, listener, sigs, h>>

----------------------------------------------------------------------------
(* Program constants *)

TIMEOUT_DELAY == 10
LOG_LIMIT == 10

(* Bounds of the model *)

MaxFocus == 3       \* focus events the listener delivers
MaxSignals == 2     \* interrupt signals delivered
MaxQueue == 2       \* events held by the channel (the code's channel holds 50)
MaxFiles == 2       \* files of a log directory found at start-up (below the limit)
MaxExt == 2         \* largest numeric extension of such a file
MaxOldId == 2       \* largest record id such a file ends with
MaxExtra == 1       \* files beyond LOG_LIMIT in a full log directory
MaxGap == 2         \* seconds between the end of a run and the next start

Snapshots == {"A", "B"}

\* the instants (seconds) at which the clock is read: something happens at
\* these times only
Instants == {0, 3, 13, 15, 23}

None == [none |-> TRUE]

----------------------------------------------------------------------------
(* Events (i3log::Event) *)

I3(e) == [type |-> "I3", e |-> e, id |-> 0]
Tick(id) == [type |-> "Tick", e |-> None, id |-> id]
Flush == [type |-> "Flush", e |-> None, id |-> 0]

(* I3Log: a focus snapshot and its start time. The listener builds it when *)
(* the focus changes; the loop stores the event's I3Log as the session.    *)
I3Log(snap, t) == [snap |-> snap, start |-> t]

(* I3Log::new_start: the same snapshot, starting now *)
new_start(prev, t) == I3Log(prev.snap, t)

(* Log::new(next_id, prev): the record closing session prev at time t *)
LogNew(id, prev, t) ==
    [id |-> id, snap |-> prev.snap, start |-> prev.start, end |-> t]

Duration(r) == r.end - r.start

----------------------------------------------------------------------------
(* Start-up: setup_log, rotate, initial_event_id *)

NonNumeric == -1

\* the files rotate may find first after the stable sort by elapsed seconds:
\* any file of least age (read_dir's order decides among equals)
Newest(files) == {f \in files : \A g \in files : f.age <= g.age}

\* rotate(dir, num): the set of values it can return
rotate(files, num) ==
    IF Cardinality(files) >= num
    THEN IF files = {} THEN {0}
         ELSE {IF f.ext # NonNumeric THEN f.ext + 1 ELSE 0 : f \in Newest(files)}
    ELSE {Cardinality(files)}

\* i3log::initial_event_id(log_path): one more than the last id recorded in
\* the selected file, 1 when the file is missing or holds no record
initial_event_id(files, ext) ==
    IF \E f \in files : f.ext = ext /\ f.last_id > 0
    THEN (CHOOSE f \in files : f.ext = ext).last_id + 1
    ELSE 1

\* i3log::writer(log_path): open the selected file for appending, creating it
OpenLog(files, ext) ==
    IF \E f \in files : f.ext = ext
    THEN {IF f.ext = ext THEN [f EXCEPT !.age = 0] ELSE f : f \in files}
    ELSE files \cup {[ext |-> ext, age |-> 0, last_id |-> 0]}

\* by: for each record written, the event that closed it
NoHistory == [i3 |-> 0, stale |-> 0, match |-> 0, flush |-> 0, armed |-> 0,
              werr |-> 0, first |-> 0, by |-> <<>>]

\* main, lines 42-48: an Err from listen_loop is logged and main goes on
ListenFatal == "panic"
ListenFailed == "running"

\* main, lines 29-53: up to the start of the event loop
Main ==
    /\ status = "start"
    /\ \E cur \in rotate(dir, LOG_LIMIT) :
          /\ log_path' = cur
          /\ next_id' = initial_event_id(dir, cur)
          /\ dir' = OpenLog(dir, cur)
          /\ h' = [h EXCEPT !.first = initial_event_id(dir, cur)]
    /\ \E ok \in BOOLEAN :
          /\ listener' = IF ok THEN "on" ELSE "failed"
          /\ status' = IF ok THEN "running" ELSE ListenFailed
    /\ prev_i3log' = None
    /\ UNCHANGED <<rx, timers, now, written, flushes, sent, focus, sigs>>

----------------------------------------------------------------------------
(* Producers *)

CanSend == status = "running" /\ Len(rx) < MaxQueue

\* i3::listen_loop: one I3 event each time another window takes the focus
Listen ==
    /\ CanSend
    /\ listener = "on"
    /\ sent < MaxFocus
    /\ \E e \in Snapshots \ {focus} :
          /\ rx' = Append(rx, I3(I3Log(e, now)))
          /\ focus' = e
    /\ sent' = sent + 1
    /\ UNCHANGED <<status, dir, log_path, next_id, prev_i3log, timers, now,
                   written, flushes, listener, sigs, h>>

\* the listener stops delivering events (its connection to i3 is lost)
ListenerStops ==
    /\ status = "running"
    /\ listener = "on"
    /\ listener' = "failed"
    /\ UNCHANGED <<status, dir, log_path, next_id, prev_i3log, rx, timers, now,
                   written, flushes, sent, focus, sigs, h>>

\* sigint: one Flush event per interrupt signal
sigint ==
    /\ CanSend
    /\ sigs < MaxSignals
    /\ rx' = Append(rx, Flush)
    /\ sigs' = sigs + 1
    /\ UNCHANGED <<status, dir, log_path, next_id, prev_i3log, timers, now,
                   written, flushes, sent, focus, listener, h>>

RemoveAt(s, i) == [j \in 1..(Len(s) - 1) |-> IF j < i THEN s[j] ELSE s[j + 1]]

\* timeout: after the delay, send Tick(id)
timeout ==
    /\ CanSend
    /\ \E i \in 1..Len(timers) :
          /\ now >= timers[i].at
          /\ rx' = Append(rx, Tick(timers[i].id))
          /\ timers' = RemoveAt(timers, i)
    /\ UNCHANGED <<status, dir, log_path, next_id, prev_i3log, now, written,
                   flushes, sent, focus, listener, sigs, h>>

\* handle.spawn(timeout(tx.clone(), id)): the new future, due after the delay
SpawnWritten(id) == [id |-> id - 1, at |-> now + TIMEOUT_DELAY]
Spawn(id) == [id |-> id, at |-> now + TIMEOUT_DELAY]

ClockTick ==
    /\ status = "running"
    /\ \E t \in Instants :
          /\ t > now
          /\ \A u \in Instants : u > now => t <= u
          /\ now' = t
    /\ UNCHANGED <<status, dir, log_path, next_id, prev_i3log, rx, timers,
                   written, flushes, sent, focus, listener, sigs, h>>

----------------------------------------------------------------------------
(* The event loop: rx.for_each, one arm of the match per action *)

Receives(type) ==
    /\ status = "running"
    /\ rx # <<>>
    /\ Head(rx).type = type

\* `if let Some(ref prev) = prev_i3log` of the I3 arm, line 57
I3ClosesNothing(prev) == FALSE
I3Closes(prev) == prev # None

\* `next_id += 1`, lines 61 and 78
SameId(id) == id
Increment(id) == id + 1

\* `if next_id != id { return Ok(()) }`, lines 70-72
NeverStale(id) == FALSE
AlwaysStale(id) == TRUE
IsStale(id) == next_id # id

\* `prev_i3log = Some(prev.new_start())`, line 79
KeepSession(prev, t) == prev
SessionAfterTick(prev, t) == new_start(prev, t)

\* the record of the Flush arm, line 87
FlushLogNextSlot == LogNew(next_id + 1, prev_i3log, now)
FlushLog == LogNew(next_id, prev_i3log, now)

\* std::process::exit(0), line 91
FallThrough == "running"
ExitFailure == "exit1"
ProcessExit == "exit0"

\* .expect("write failed") on an Err, lines 60, 77, 89: the loop's thread
\* panics and the process ends with the panic status
ErrorIgnored == "running"
Expect == "panic"

\* a write that returns Err: nothing is appended
WriteFailed ==
    /\ status' = Expect
    /\ h' = [h EXCEPT !.werr = @ + 1]
    /\ rx' = Tail(rx)
    /\ UNCHANGED <<dir, log_path, next_id, prev_i3log, timers, now, written,
                   flushes, sent, focus, listener, sigs>>

\* Event::I3(e), lines 56-68
HandleI3 ==
    /\ Receives("I3")
    /\ IF I3Closes(prev_i3log)
       THEN \/ /\ written' = Append(written, LogNew(next_id, prev_i3log, now))
               /\ next_id' = Increment(next_id)
               /\ timers' = Append(timers, Spawn(next_id'))
               /\ prev_i3log' = Head(rx).e
               /\ h' = [h EXCEPT !.i3 = @ + 1, !.armed = @ + 1,
                                 !.by = Append(@, "I3")]
               /\ rx' = Tail(rx)
               /\ UNCHANGED <<status, dir, log_path, now, flushes, sent, focus, listener, sigs>>
            \/ WriteFailed
       ELSE /\ timers' = Append(timers, Spawn(next_id))
            /\ prev_i3log' = Head(rx).e
            /\ h' = [h EXCEPT !.i3 = @ + 1, !.armed = @ + 1]
            /\ rx' = Tail(rx)
            /\ UNCHANGED <<status, dir, log_path, next_id, now, written,
                           flushes, sent, focus, listener, sigs>>

\* Event::Tick(id), lines 69-84
HandleTick ==
    /\ Receives("Tick")
    /\ IF IsStale(Head(rx).id)
       THEN /\ rx' = Tail(rx)
            /\ h' = [h EXCEPT !.stale = @ + 1]
            /\ UNCHANGED <<status, dir, log_path, next_id, prev_i3log, timers,
                           now, written, flushes, sent, focus, listener, sigs>>
       ELSE IF prev_i3log # None
            THEN \/ /\ written' =
                          Append(written, LogNew(next_id, prev_i3log, now))
                    /\ next_id' = Increment(next_id)
                    /\ prev_i3log' = SessionAfterTick(prev_i3log, now)
                    /\ timers' = Append(timers, Spawn(next_id'))
                    /\ h' = [h EXCEPT !.match = @ + 1, !.armed = @ + 1,
                                      !.by = Append(@, "Tick")]
                    /\ rx' = Tail(rx)
                    /\ UNCHANGED <<status, dir, log_path, now, flushes, sent, focus, listener,
                                   sigs>>
                 \/ WriteFailed
            ELSE /\ timers' = Append(timers, Spawn(next_id))
                 /\ h' = [h EXCEPT !.match = @ + 1, !.armed = @ + 1]
                 /\ rx' = Tail(rx)
                 /\ UNCHANGED <<status, dir, log_path, next_id, prev_i3log,
                                now, written, flushes, sent, focus, listener, sigs>>

\* Event::Flush, lines 85-92
HandleFlush ==
    /\ Receives("Flush")
    /\ IF prev_i3log # None
       THEN \/ /\ written' = Append(written, FlushLog)
               /\ status' = ProcessExit
               /\ h' = [h EXCEPT !.flush = @ + 1, !.by = Append(@, "Flush")]
               /\ rx' = Tail(rx)
               /\ UNCHANGED <<dir, log_path, next_id, prev_i3log, timers, now,
                              flushes, sent, focus, listener, sigs>>
            \/ WriteFailed
       ELSE /\ status' = ProcessExit
            /\ h' = [h EXCEPT !.flush = @ + 1]
            /\ rx' = Tail(rx)
            /\ UNCHANGED <<dir, log_path, next_id, prev_i3log, timers, now,
                           written, flushes, sent, focus, listener, sigs>>

----------------------------------------------------------------------------
(* The engine, first run in an empty log directory *)

Init ==
    /\ status = "start"
    /\ dir = {}
    /\ log_path = 0
    /\ next_id = 0
    /\ prev_i3log = None
    /\ rx = <<>>
    /\ timers = <<>>
    /\ now = 0
    /\ written = <<>>
    /\ flushes = 0
    /\ sent = 0
    /\ focus = "-"
    /\ listener = "off"
    /\ sigs = 0
    /\ h = NoHistory

Next ==
    \/ Main
    \/ Listen
    \/ ListenerStops
    \/ sigint
    \/ timeout
    \/ ClockTick
    \/ HandleI3
    \/ HandleTick
    \/ HandleFlush

Spec == Init /\ [][Next]_vars

\* rt.run(), line 97: the runtime polls every task that can make progress, so
\* time passes, a timer that is due sends its Tick, and the loop takes the
\* event at the head of the channel
SpecLive ==
    /\ Init
    /\ [][Next]_vars
    /\ WF_vars(ClockTick)
    /\ WF_vars(timeout)
    /\ WF_vars(HandleI3)
    /\ WF_vars(HandleTick)
    /\ WF_vars(HandleFlush)

----------------------------------------------------------------------------
(* Start-up in a log directory that earlier runs (and the user) have left *)

\* a directory below the limit: any files, with any last record ids
SmallDirs ==
    UNION {{{[ext |-> e, age |-> e + 2, last_id |-> ids[e]] : e \in E} :
               ids \in [E -> 0..MaxOldId]} :
           E \in {X \in SUBSET (NonNumeric..MaxExt) : Cardinality(X) <= MaxFiles}}

\* a directory at or over the limit: files 0..k-1, file n written last,
\* file n-1 longest ago
FullDir(k, n) ==
    {[ext |-> e, age |-> (e + k - n) % k, last_id |-> e + 1] : e \in 0..(k - 1)}

FullDirs ==
    {FullDir(k, n) : k \in LOG_LIMIT..(LOG_LIMIT + MaxExtra), n \in 0..LOG_LIMIT}

InitBoot ==
    /\ status = "start"
    /\ dir \in SmallDirs \cup FullDirs
    /\ log_path = 0
    /\ next_id = 0
    /\ prev_i3log = None
    /\ rx = <<>>
    /\ timers = <<>>
    /\ now = 0
    /\ written = <<>>
    /\ flushes = 0
    /\ sent = 0
    /\ focus = "-"
    /\ listener = "off"
    /\ sigs = 0
    /\ h = NoHistory

\* the run up to its first records: no second passes
NextBoot ==
    \/ Main
    \/ Listen
    \/ sigint
    \/ HandleI3
    \/ HandleFlush

SpecBoot == InitBoot /\ [][NextBoot]_vars

----------------------------------------------------------------------------
(* One start after another, from the empty log directory *)

\* the log directory a run leaves behind, seen d seconds later: the selected
\* file ends with the last record written
DirAfterRun(d) ==
    {[f EXCEPT !.age = @ + d,
               !.last_id = IF f.ext = log_path /\ written # <<>>
                           THEN written[Len(written)].id ELSE @] : f \in dir}

\* the process has ended (or is killed) and the program is started again
Restart ==
    /\ status # "start"
    /\ Cardinality(dir) <= LOG_LIMIT + MaxExtra
    /\ \E d \in 1..MaxGap : dir' = DirAfterRun(d)
    /\ status' = "start"
    /\ log_path' = 0
    /\ next_id' = 0
    /\ prev_i3log' = None
    /\ rx' = <<>>
    /\ timers' = <<>>
    /\ now' = 0
    /\ written' = <<>>
    /\ sent' = 0
    /\ focus' = "-"
    /\ listener' = "off"
    /\ sigs' = 0
    /\ h' = NoHistory
    /\ UNCHANGED flushes

\* runs that see no focus event
NextStarts ==
    \/ Main
    \/ sigint
    \/ HandleFlush
    \/ Restart

SpecStarts == Init /\ [][NextStarts]_vars

----------------------------------------------------------------------------
(* Properties *)

\* the loop takes the event at the head of the channel in this step
Consumes(type) == Receives(type) /\ rx' = Tail(rx)

Last(s) == s[Len(s)]

RECURSIVE SumDurations(_, _, _)
SumDurations(s, i, j) ==
    IF i > j THEN 0 ELSE Duration(s[i]) + SumDurations(s, i + 1, j)

PriorMax(files) ==
    IF files = {} THEN 0
    ELSE (CHOOSE f \in files : \A g \in files : g.last_id <= f.last_id).last_id

\* C1: after n >= 1 FocusChanged events and no Tick and no Shutdown, exactly
\* n - 1 records have been written (the first event only opens a session).
C1_FocusOnlyRecordCount ==
    (h.i3 >= 1 /\ h.stale = 0 /\ h.match = 0 /\ h.flush = 0)
        => Len(written) = h.i3 - 1

C1_Witness ==
    /\ h.i3 = 3 /\ h.stale = 0 /\ h.match = 0 /\ h.flush = 0
    /\ Len(written) = 2

\* C2: the k-th record written in a run has id initial + k - 1, whatever
\* mix of FocusChanged, stale and matching Ticks and Shutdown wrote them.
C2_IdsGapless ==
    \A k \in 1..Len(written) : written[k].id = h.first + (k - 1)

C2_Witness ==
    /\ status = "exit0"
    /\ Len(written) >= 3
    /\ h.stale >= 1
    /\ h.match >= 1

\* C3: processing a Tick whose token differs from next_id changes nothing:
\* no record, same next_id, same session, no timer armed, loop still running.
C3_StaleTickNoOp ==
    [][(Consumes("Tick") /\ Head(rx).id # next_id)
          => UNCHANGED <<written, next_id, prev_i3log, timers, status>>]_vars

C3_Witness ==
    /\ h.stale >= 2
    /\ status = "running"

\* C4: Shutdown processed while Tracking (the append succeeding) writes
\* exactly one record, with the pending id and the open session's snapshot,
\* opens no session and arms no timer.
C4_ShutdownWritesFinalRecord ==
    [][(Consumes("Flush") /\ prev_i3log # None /\ status' # "panic")
          => /\ Len(written') = Len(written) + 1
             /\ SubSeq(written', 1, Len(written)) = written
             /\ Last(written').id = next_id
             /\ Last(written').snap = prev_i3log.snap
             /\ UNCHANGED <<prev_i3log, timers, next_id>>]_vars

C4_Witness ==
    /\ status = "exit0"
    /\ written # <<>>
    /\ h.stale >= 1
    /\ \E i \in 1..Len(rx) : rx[i].type = "Tick"

\* C5: once a Shutdown has been processed nothing more is taken from the
\* channel and nothing more is written.
C5_ShutdownTerminal ==
    [][h.flush >= 1 => UNCHANGED <<rx, written, h, status, next_id>>]_vars

C5_Witness ==
    /\ status = "exit0"
    /\ \E i \in 1..Len(rx) : rx[i].type = "Flush"
    /\ timers # <<>>

\* C6: a Shutdown processed before any FocusChanged ends the run with
\* status 0 and no record written.
C6_IdleShutdown ==
    (h.flush >= 1 /\ h.i3 = 0) => (status = "exit0" /\ written = <<>>)

C6_Witness ==
    /\ h.flush = 1 /\ h.i3 = 0
    /\ status = "exit0"

\* C7: every run that ends through Shutdown has flushed the writer before
\* the process exits, when Tracking and when Idle.
C7_FlushBeforeExit ==
    status = "exit0" => flushes >= 1

\* records i..j belong to one focus session: each but the last was closed by
\* a matching Tick
OneSession(i, j) == \A k \in i..(j - 1) : h.by[k] = "Tick"

\* C8: the records of one unbroken focus session tile its interval: a record
\* that follows a split starts where the split record ended and shows the
\* same window, the session left open by a split starts where the split
\* record ended, and the durations of the session's records add up to the
\* time from the start of its first record to the end of its last.
C8_RecordsTile ==
    /\ Len(h.by) = Len(written)
    /\ \A k \in 1..(Len(written) - 1) :
          h.by[k] = "Tick" => /\ written[k + 1].start = written[k].end
                              /\ written[k + 1].snap = written[k].snap
    /\ (written # <<>> /\ Last(h.by) = "Tick")
          => prev_i3log.start = Last(written).end
    /\ \A i, j \in 1..Len(written) :
          (i <= j /\ OneSession(i, j))
              => SumDurations(written, i, j)
                    = written[j].end - written[i].start

\* the example of the spec: A at 0, B at 3, matching Tick at 13, Shutdown at 15
C8_Witness ==
    /\ status = "exit0"
    /\ h.match = 1
    /\ written = << [id |-> 1, snap |-> "A", start |-> 0, end |-> 3],
                    [id |-> 2, snap |-> "B", start |-> 3, end |-> 13],
                    [id |-> 3, snap |-> "B", start |-> 13, end |-> 15] >>
    /\ Duration(written[1]) = 3
    /\ Duration(written[2]) = 10
    /\ Duration(written[3]) = 2

\* C9: a failed append ends the process with a status other than 0 in that
\* step, without advancing next_id or writing; afterwards nothing is
\* processed and nothing is written.
C9_WriteFailureFatal ==
    [][/\ h'.werr > h.werr
            => /\ status' \notin {"running", "exit0"}
               /\ UNCHANGED <<next_id, written>>
       /\ h.werr > 0
            => UNCHANGED <<rx, written, next_id, status, h>>]_vars

C9_Witness ==
    /\ status = "panic"
    /\ h.werr = 1
    /\ rx # <<>>
    /\ written # <<>>

C11_FileCountBounded ==
    Cardinality(dir) <= LOG_LIMIT

\* the step of main that runs setup_log
Starts == status = "start" /\ status' = "running"

\* the files modified longest ago
Oldest(files) == {f \in files : \A g \in files : f.age >= g.age}

\* C12: with the limit reached, rotation selects the file modified longest
\* ago and returns its numeric suffix plus one.
C12_RotatesOldest ==
    [][(Starts /\ Cardinality(dir) >= LOG_LIMIT)
          => \E f \in Oldest(dir) : f.ext # NonNumeric /\ log_path' = f.ext + 1]_vars

\* C13: below the limit, the suffix rotation returns names a file that does
\* not exist yet, whatever the suffixes of the files that do.
C13_FreshBelowLimit ==
    [][(Starts /\ Cardinality(dir) < LOG_LIMIT)
          => ~ \E f \in dir : f.ext = log_path']_vars

\* the step appends exactly one record, with this id and this snapshot
WritesOne(id, snap) ==
    /\ Len(written') = Len(written) + 1
    /\ SubSeq(written', 1, Len(written)) = written
    /\ Last(written').id = id
    /\ Last(written').snap = snap

\* the step arms exactly one timer, carrying this token
ArmsOne(id) ==
    /\ Len(timers') = Len(timers) + 1
    /\ SubSeq(timers', 1, Len(timers)) = timers
    /\ Last(timers').id = id

\* C14: a matching Tick processed while Tracking (the append succeeding)
\* writes one record with the pending id and the session's snapshot, adds 1
\* to next_id, reopens the session with the same snapshot starting now, arms
\* one timer carrying the new next_id, and the loop goes on Tracking.
C14_MatchingTickSplits ==
    [][(Consumes("Tick") /\ Head(rx).id = next_id /\ prev_i3log # None
            /\ status' # "panic")
          => /\ WritesOne(next_id, prev_i3log.snap)
             /\ next_id' = next_id + 1
             /\ prev_i3log' # None
             /\ prev_i3log'.snap = prev_i3log.snap
             /\ prev_i3log'.start = now
             /\ ArmsOne(next_id + 1)
             /\ status' = "running"]_vars

C14_Witness ==
    /\ h.match >= 2
    /\ Len(written) >= 2
    /\ status = "running"

\* C15: FocusChanged(new) processed while Tracking (the append succeeding)
\* writes one record with the previous session's snapshot and the pending id,
\* adds 1 to next_id, makes `new` the session and arms a timer carrying the
\* new next_id.
C15_FocusChangeCloses ==
    [][(Consumes("I3") /\ prev_i3log # None /\ status' # "panic")
          => /\ WritesOne(next_id, prev_i3log.snap)
             /\ next_id' = next_id + 1
             /\ prev_i3log' = Head(rx).e
             /\ ArmsOne(next_id + 1)
             /\ status' = "running"]_vars

C15_Witness ==
    /\ h.i3 >= 2
    /\ written # <<>>
    /\ h.by[1] = "I3"
    /\ written[1].snap # prev_i3log.snap

\* C16: FocusChanged processed while Idle writes nothing and leaves next_id
\* alone, opens the session with the event's snapshot, arms one timer
\* carrying next_id and the loop is Tracking; once Tracking, always Tracking.
C16_FirstFocusOpens ==
    [][/\ (Consumes("I3") /\ prev_i3log = None)
            => /\ UNCHANGED <<written, next_id, status>>
               /\ prev_i3log' = Head(rx).e
               /\ prev_i3log' # None
               /\ ArmsOne(next_id)
       /\ prev_i3log # None => prev_i3log' # None]_vars

C16_Witness ==
    /\ h.i3 = 1
    /\ prev_i3log # None
    /\ written = <<>>
    /\ Len(timers) = 1

\* Ticks sent so far and still queued
QueuedTicks == {i \in 1..Len(rx) : rx[i].type = "Tick"}

\* C17: a processed FocusChanged and a processed matching Tick each arm one
\* timer whose token is next_id after the step; a stale Tick, a Shutdown and
\* every step outside the loop arm none; so the timers armed in a run (those
\* pending, those whose Tick is queued, those whose Tick was processed)
\* number as many as the FocusChanged and matching Ticks processed.
C17_TimersArmedByLoopSteps ==
    [][/\ ((Consumes("I3") \/ (Consumes("Tick") /\ Head(rx).id = next_id))
              /\ status' = "running")
            => ArmsOne(next_id')
       /\ ((Consumes("Tick") /\ Head(rx).id # next_id) \/ Consumes("Flush"))
            => timers' = timers
       /\ (rx = <<>> \/ rx' # Tail(rx)) => Len(timers') <= Len(timers)
       /\ status' \in {"running", "exit0"}
            => Len(timers') + Cardinality(QueuedTicks') + h'.stale + h'.match
                  = h'.i3 + h'.match]_vars

C17_Witness ==
    /\ status = "exit0"
    /\ h.i3 >= 2
    /\ h.match >= 1
    /\ h.stale >= 1
    /\ timers # <<>>

\* the tokens in flight: of the timers pending and of the Ticks queued
Tokens ==
    [i \in 1..(Len(timers) + Len(rx)) |->
        IF i <= Len(timers) THEN timers[i].id
        ELSE IF rx[i - Len(timers)].type = "Tick" THEN rx[i - Len(timers)].id
        ELSE -1]

\* C18: while Tracking and running, exactly one token in flight equals
\* next_id, every other is smaller, and no token is in flight twice.
C18_OneLiveToken ==
    (status = "running" /\ prev_i3log # None)
        => /\ Cardinality({i \in DOMAIN Tokens : Tokens[i] = next_id}) = 1
           /\ \A i \in DOMAIN Tokens : Tokens[i] <= next_id
           /\ \A i, j \in DOMAIN Tokens :
                 (i # j /\ Tokens[i] # -1) => Tokens[i] # Tokens[j]

C18_Witness ==
    /\ status = "running"
    /\ prev_i3log # None
    /\ Len(timers) >= 2
    /\ \E i \in QueuedTicks : rx[i].id < next_id
    /\ \E i \in 1..Len(timers) : timers[i].id = next_id

\* C20: a listener that fails to start or stops delivering does not end the
\* process: the step on which it fails leaves the loop running; afterwards
\* the loop leaves the running state only by a Shutdown or a failed append,
\* takes every event that reaches the head of the channel, writes a record
\* for a matching Tick and, on Shutdown, the final record before exit 0.
C20_ListenerFailureNotFatal ==
    [][/\ (listener # "failed" /\ listener' = "failed") => status' = "running"
       /\ (listener = "failed" /\ status = "running")
            => /\ rx # <<>> => ENABLED (HandleI3 \/ HandleTick \/ HandleFlush)
               /\ status' # "running"
                    => (Consumes("Flush") \/ status' = "panic")
               /\ (Consumes("Tick") /\ Head(rx).id = next_id
                      /\ prev_i3log # None /\ status' # "panic")
                    => WritesOne(next_id, prev_i3log.snap)
               /\ (Consumes("Flush") /\ status' # "panic")
                    => /\ status' = "exit0"
                       /\ prev_i3log # None
                            => WritesOne(next_id, prev_i3log.snap)]_vars

C20_Witness ==
    /\ listener = "failed"
    /\ status = "exit0"
    /\ h.match >= 1
    /\ sent = 1
    /\ Len(written) >= 2
    /\ h.by[Len(written)] = "Flush"

\* the last instant of the clock
Horizon == CHOOSE t \in Instants : \A u \in Instants : u <= t

\* the timer carrying next_id has sent its Tick, or is due within the horizon
LiveTokenDue ==
    \/ \E i \in QueuedTicks : rx[i].id = next_id
    \/ \E i \in 1..Len(timers) :
          timers[i].id = next_id /\ timers[i].at <= Horizon

\* C19: with timers firing and the channel drained, from every Tracking state
\* of the running loop whose live timer falls due within the horizon, a
\* further record is eventually written unless the run ends by a Shutdown or
\* a failed append; no further focus event is needed.
C19_IdleSplitsContinue ==
    \A n \in 0..(MaxFocus + Cardinality(Instants)) :
        (/\ status = "running"
         /\ prev_i3log # None
         /\ Len(written) = n
         /\ LiveTokenDue)
            ~> (Len(written) > n \/ status # "running")

C19_Witness ==
    /\ status = "running"
    /\ sent = 1
    /\ h.match >= 1
    /\ written # <<>>
    /\ prev_i3log # None
    /\ LiveTokenDue

====
